---- MODULE Spec2Model ----
(***************************************************************************)
(* FIGI validation in crates/symbology: the three Figi::from_str           *)
(* implementations (figi.rs: winnow parser combinators; figi_imperative.rs:*)
(* hand-rolled; ibrk_figi.rs: typed positions with checksum), their        *)
(* conversions back to text, and a caller that parses identifiers and      *)
(* inputs derived from them.                                               *)
(*                                                                         *)
(* A char is its Unicode scalar value (a natural number); a str or String  *)
(* is the sequence of its chars.  'B' = 66 ... 'Z' = 90, '0' = 48 ...      *)
(* '9' = 57.  An enum variant is the string of its name.                   *)
(***************************************************************************)
EXTENDS Integers, Sequences, FiniteSets, TLC

VARIABLES input, origin, r_figi, r_imperative, r_ibrk, r_chars, s_figi, s_ibrk, cls

vars == <<input, origin, r_figi, r_imperative, r_ibrk, r_chars, s_figi, s_ibrk, cls>>

(***************************************************************************)
(* Bounds of the caller.                                                   *)
(***************************************************************************)
MaxRemoved == 2

MaxAppended == 2

(***************************************************************************)
(* str <-> bytes (UTF-8), as str::len and str::as_bytes see a string.      *)
(***************************************************************************)
\* The UTF-8 encoding of one char.
encode_utf8(c) ==
    IF c < 128 THEN <<c>>
    ELSE IF c < 2048 THEN <<192 + (c \div 64), 128 + (c % 64)>>
    ELSE IF c < 65536 THEN
        <<224 + (c \div 4096), 128 + ((c \div 64) % 64), 128 + (c % 64)>>
    ELSE <<240 + (c \div 262144), 128 + ((c \div 4096) % 64),
           128 + ((c \div 64) % 64), 128 + (c % 64)>>

RECURSIVE as_bytes(_)
\* s.as_bytes(): the bytes of the string s.
as_bytes(s) ==
    IF s = <<>> THEN <<>> ELSE encode_utf8(Head(s)) \o as_bytes(Tail(s))

\* s.len(): the length of s in bytes.
str_len(s) == Len(as_bytes(s))

(***************************************************************************)
(* ibrk_figi.rs: the character classes.                                    *)
(***************************************************************************)
\* enum Consonant numbered densely from 10, without the gaps of the vowels.
Consonant_as_u8_dense(v) ==
    CASE v = "B" -> 10
      [] v = "C" -> 11
      [] v = "D" -> 12
      [] v = "F" -> 13
      [] v = "G" -> 14
      [] v = "H" -> 15
      [] v = "J" -> 16
      [] v = "K" -> 17
      [] v = "L" -> 18
      [] v = "M" -> 19
      [] v = "N" -> 20
      [] v = "P" -> 21
      [] v = "Q" -> 22
      [] v = "R" -> 23
      [] v = "S" -> 24
      [] v = "T" -> 25
      [] v = "V" -> 26
      [] v = "W" -> 27
      [] v = "X" -> 28
      [] v = "Y" -> 29
      [] v = "Z" -> 30

\* enum Consonant, `as u8`: the discriminant of a variant.
Consonant_as_u8(v) ==
    CASE v = "B" -> 11
      [] v = "C" -> 12
      [] v = "D" -> 13
      [] v = "F" -> 15
      [] v = "G" -> 16
      [] v = "H" -> 17
      [] v = "J" -> 19
      [] v = "K" -> 20
      [] v = "L" -> 21
      [] v = "M" -> 22
      [] v = "N" -> 23
      [] v = "P" -> 25
      [] v = "Q" -> 26
      [] v = "R" -> 27
      [] v = "S" -> 28
      [] v = "T" -> 29
      [] v = "V" -> 31
      [] v = "W" -> 32
      [] v = "X" -> 33
      [] v = "Y" -> 34
      [] v = "Z" -> 35

\* enum ConsonantOrNumeric, `as u8`.
ConsonantOrNumeric_as_u8(v) ==
    CASE v = "Zero" -> 0
      [] v = "One" -> 1
      [] v = "Two" -> 2
      [] v = "Three" -> 3
      [] v = "Four" -> 4
      [] v = "Five" -> 5
      [] v = "Six" -> 6
      [] v = "Seven" -> 7
      [] v = "Eight" -> 8
      [] v = "Nine" -> 9
      [] v = "B" -> 11
      [] v = "C" -> 12
      [] v = "D" -> 13
      [] v = "F" -> 15
      [] v = "G" -> 16
      [] v = "H" -> 17
      [] v = "J" -> 19
      [] v = "K" -> 20
      [] v = "L" -> 21
      [] v = "M" -> 22
      [] v = "N" -> 23
      [] v = "P" -> 25
      [] v = "Q" -> 26
      [] v = "R" -> 27
      [] v = "S" -> 28
      [] v = "T" -> 29
      [] v = "V" -> 31
      [] v = "W" -> 32
      [] v = "X" -> 33
      [] v = "Y" -> 34
      [] v = "Z" -> 35

\* impl From<Consonant> for char
Consonant_into_char(value) ==
    CASE value = "B" -> 66   \* 'B'
      [] value = "C" -> 67   \* 'C'
      [] value = "D" -> 68   \* 'D'
      [] value = "F" -> 70   \* 'F'
      [] value = "G" -> 71   \* 'G'
      [] value = "H" -> 72   \* 'H'
      [] value = "J" -> 74   \* 'J'
      [] value = "K" -> 75   \* 'K'
      [] value = "L" -> 76   \* 'L'
      [] value = "M" -> 77   \* 'M'
      [] value = "N" -> 78   \* 'N'
      [] value = "P" -> 80   \* 'P'
      [] value = "Q" -> 81   \* 'Q'
      [] value = "R" -> 82   \* 'R'
      [] value = "S" -> 83   \* 'S'
      [] value = "T" -> 84   \* 'T'
      [] value = "V" -> 86   \* 'V'
      [] value = "W" -> 87   \* 'W'
      [] value = "X" -> 88   \* 'X'
      [] value = "Y" -> 89   \* 'Y'
      [] value = "Z" -> 90   \* 'Z'

\* impl From<ConsonantOrNumeric> for char
ConsonantOrNumeric_into_char(value) ==
    CASE value = "B" -> 66   \* 'B'
      [] value = "C" -> 67   \* 'C'
      [] value = "D" -> 68   \* 'D'
      [] value = "F" -> 70   \* 'F'
      [] value = "G" -> 71   \* 'G'
      [] value = "H" -> 72   \* 'H'
      [] value = "J" -> 74   \* 'J'
      [] value = "K" -> 75   \* 'K'
      [] value = "L" -> 76   \* 'L'
      [] value = "M" -> 77   \* 'M'
      [] value = "N" -> 78   \* 'N'
      [] value = "P" -> 80   \* 'P'
      [] value = "Q" -> 81   \* 'Q'
      [] value = "R" -> 82   \* 'R'
      [] value = "S" -> 83   \* 'S'
      [] value = "T" -> 84   \* 'T'
      [] value = "V" -> 86   \* 'V'
      [] value = "W" -> 87   \* 'W'
      [] value = "X" -> 88   \* 'X'
      [] value = "Y" -> 89   \* 'Y'
      [] value = "Z" -> 90   \* 'Z'
      [] value = "Zero" -> 48   \* '0'
      [] value = "One" -> 49   \* '1'
      [] value = "Two" -> 50   \* '2'
      [] value = "Three" -> 51   \* '3'
      [] value = "Four" -> 52   \* '4'
      [] value = "Five" -> 53   \* '5'
      [] value = "Six" -> 54   \* '6'
      [] value = "Seven" -> 55   \* '7'
      [] value = "Eight" -> 56   \* '8'
      [] value = "Nine" -> 57   \* '9'

\* u8::from(G)
G_into_u8 == 16

\* char::from(G)
G_into_char == 71

\* The unit struct G.
G == "G"

\* impl TryFrom<char> for Consonant; "InvalidConsonant" is the Err.
Consonant_try_from(value) ==
    CASE value = 66 -> "B"   \* 'B'
      [] value = 67 -> "C"   \* 'C'
      [] value = 68 -> "D"   \* 'D'
      [] value = 70 -> "F"   \* 'F'
      [] value = 71 -> "G"   \* 'G'
      [] value = 72 -> "H"   \* 'H'
      [] value = 74 -> "J"   \* 'J'
      [] value = 75 -> "K"   \* 'K'
      [] value = 76 -> "L"   \* 'L'
      [] value = 77 -> "M"   \* 'M'
      [] value = 78 -> "N"   \* 'N'
      [] value = 80 -> "P"   \* 'P'
      [] value = 81 -> "Q"   \* 'Q'
      [] value = 82 -> "R"   \* 'R'
      [] value = 83 -> "S"   \* 'S'
      [] value = 84 -> "T"   \* 'T'
      [] value = 86 -> "V"   \* 'V'
      [] value = 87 -> "W"   \* 'W'
      [] value = 88 -> "X"   \* 'X'
      [] value = 89 -> "Y"   \* 'Y'
      [] value = 90 -> "Z"   \* 'Z'
      [] OTHER -> "InvalidConsonant"

\* impl TryFrom<char> for ConsonantOrNumeric; "InvalidConsonantOrNumeric" is the Err.
ConsonantOrNumeric_try_from(value) ==
    CASE value = 66 -> "B"   \* 'B'
      [] value = 67 -> "C"   \* 'C'
      [] value = 68 -> "D"   \* 'D'
      [] value = 70 -> "F"   \* 'F'
      [] value = 71 -> "G"   \* 'G'
      [] value = 72 -> "H"   \* 'H'
      [] value = 74 -> "J"   \* 'J'
      [] value = 75 -> "K"   \* 'K'
      [] value = 76 -> "L"   \* 'L'
      [] value = 77 -> "M"   \* 'M'
      [] value = 78 -> "N"   \* 'N'
      [] value = 80 -> "P"   \* 'P'
      [] value = 81 -> "Q"   \* 'Q'
      [] value = 82 -> "R"   \* 'R'
      [] value = 83 -> "S"   \* 'S'
      [] value = 84 -> "T"   \* 'T'
      [] value = 86 -> "V"   \* 'V'
      [] value = 87 -> "W"   \* 'W'
      [] value = 88 -> "X"   \* 'X'
      [] value = 89 -> "Y"   \* 'Y'
      [] value = 90 -> "Z"   \* 'Z'
      [] value = 48 -> "Zero"   \* '0'
      [] value = 49 -> "One"   \* '1'
      [] value = 50 -> "Two"   \* '2'
      [] value = 51 -> "Three"   \* '3'
      [] value = 52 -> "Four"   \* '4'
      [] value = 53 -> "Five"   \* '5'
      [] value = 54 -> "Six"   \* '6'
      [] value = 55 -> "Seven"   \* '7'
      [] value = 56 -> "Eight"   \* '8'
      [] value = 57 -> "Nine"   \* '9'
      [] OTHER -> "InvalidConsonantOrNumeric"


(***************************************************************************)
(* ibrk_figi.rs: Figi, the checksum, from_chars, from_str, String::from.   *)
(***************************************************************************)
Ok(v) == [tag |-> "Ok", figi |-> v]

\* An InvalidFigi variant e carrying the String s.
Err(e, s) == [tag |-> "Err", err |-> e, text |-> s]

\* An error that carries no text.
Err0(e) == [tag |-> "Err", err |-> e]

\* A call that has not been made.
None == [tag |-> "None"]

\* u8 arithmetic: the value of the 8-bit result.
u8(n) == n % 256

\* The digit sum taken repeatedly down to one digit (casting out nines).
sum_digits_mod_9(n) == IF n = 0 THEN 0 ELSE 1 + ((n - 1) % 9)

\* The value passed through, with no digits summed.
sum_digits_identity(n) == n

\* const fn sum_digits_sub_100(n: u8) -> u8
sum_digits_sub_100(n) ==
    LET rem == n % 10
    IN  u8(rem + (u8(n - rem) \div 10))

RECURSIVE is_valid_loop_odd(_, _, _)
\* The loop of is_valid with the doubling on the odd indices instead.
is_valid_loop_odd(figi, i, sum) ==
    IF i >= Len(figi.pos_4_12) - 1 THEN sum
    ELSE LET c == ConsonantOrNumeric_as_u8(figi.pos_4_12[i + 1])
         IN  IF i % 2 = 1
             THEN is_valid_loop_odd(figi, i + 1, u8(sum + sum_digits_sub_100(u8(2 * c))))
             ELSE is_valid_loop_odd(figi, i + 1, u8(sum + sum_digits_sub_100(c)))

RECURSIVE is_valid_loop(_, _, _)
\* The for loop of is_valid over pos_4_12[..8], from index i with running sum.
is_valid_loop(figi, i, sum) ==
    IF i >= Len(figi.pos_4_12) - 1 THEN sum
    ELSE LET c == ConsonantOrNumeric_as_u8(figi.pos_4_12[i + 1])
         IN  IF i % 2 = 0
             THEN is_valid_loop(figi, i + 1, u8(sum + sum_digits_sub_100(u8(2 * c))))
             ELSE is_valid_loop(figi, i + 1, u8(sum + sum_digits_sub_100(c)))

\* (10 - sum % 10) % 10, the digit is_valid expects at position 12.
check_digit(sum) == u8(10 - (sum % 10)) % 10

\* The sum of is_valid with pos_1 doubled and pos_2 not.
is_valid_sum_first_doubled(figi) ==
    is_valid_loop(figi, 0,
        u8(u8(sum_digits_sub_100(u8(Consonant_as_u8(figi.pos_1) * 2))
              + sum_digits_sub_100(Consonant_as_u8(figi.pos_2)))
           + sum_digits_sub_100(G_into_u8)))

\* The value of `sum` when the loop of is_valid has ended.
is_valid_sum(figi) ==
    is_valid_loop(figi, 0,
        u8(u8(sum_digits_sub_100(Consonant_as_u8(figi.pos_1))
              + sum_digits_sub_100(u8(Consonant_as_u8(figi.pos_2) * 2)))
           + sum_digits_sub_100(G_into_u8)))

\* The eleven products of is_valid before they are cast to u8: the arguments of
\* its calls of sum_digits_sub_100, in the order of the calls.
is_valid_terms(figi) ==
    <<Consonant_as_u8(figi.pos_1), Consonant_as_u8(figi.pos_2) * 2, G_into_u8>>
        \o [i \in 1..(Len(figi.pos_4_12) - 1) |->
               IF (i - 1) % 2 = 0
               THEN 2 * ConsonantOrNumeric_as_u8(figi.pos_4_12[i])
               ELSE ConsonantOrNumeric_as_u8(figi.pos_4_12[i])]

\* is_valid without the comparison of the check digit.
is_valid_unchecked(figi) == TRUE

\* fn is_valid(&self) -> bool
is_valid(figi) ==
    ConsonantOrNumeric_as_u8(figi.pos_4_12[Len(figi.pos_4_12)])
        = check_digit(is_valid_sum(figi))

\* The reserved pairs in the first match arm of from_chars.
FirstTwoReserved(c1, c2) ==
    \/ c1 = 66 /\ c2 \in {83, 77}          \* ('B', 'S' | 'M')
    \/ c1 = 71 /\ c2 \in {71, 66, 72}      \* ('G', 'G' | 'B' | 'H')
    \/ c1 = 75 /\ c2 = 89                  \* ('K', 'Y')
    \/ c1 = 86 /\ c2 = 71                  \* ('V', 'G')

\* The struct from_chars builds from twelve classified chars (`let out = Self {..}`).
figi_of_chars(s) ==
    [pos_1 |-> Consonant_try_from(s[1]),
     pos_2 |-> Consonant_try_from(s[2]),
     pos_3 |-> G,
     pos_4_12 |-> [i \in 1..9 |-> ConsonantOrNumeric_try_from(s[i + 3])]]

\* pub fn from_chars(s: &[char; 12]) -> Result<Self, InvalidFigi>
\* (s is 1-based here: s[1] is the code's s[0]).
ibrk_from_chars(s) ==
    IF FirstTwoReserved(s[1], s[2]) THEN Err("FirstTwo", s)
    ELSE IF Consonant_try_from(s[1]) = "InvalidConsonant" THEN Err("Consonant", s)
    ELSE IF Consonant_try_from(s[2]) = "InvalidConsonant" THEN Err("Consonant", s)
    ELSE IF s[3] # 71 THEN Err("Third", s)
    ELSE IF \E i \in 4..12 :
                ConsonantOrNumeric_try_from(s[i]) = "InvalidConsonantOrNumeric"
         THEN Err("ConsonantOrNumeric", s)
    ELSE LET out == figi_of_chars(s)
         IN  IF is_valid(out) THEN Ok(out) ELSE Err("Checksum", s)

\* impl FromStr for Figi (ibrk_figi.rs): twelve bytes, each byte `as char`.
ibrk_from_str(s) ==
    LET b == as_bytes(s)
    IN  IF Len(b) # 12 THEN Err("Length", s) ELSE ibrk_from_chars(b)

\* impl From<&Figi> for String
ibrk_into_string(value) ==
    <<Consonant_into_char(value.pos_1), Consonant_into_char(value.pos_2), G_into_char>>
        \o [i \in 1..Len(value.pos_4_12) |-> ConsonantOrNumeric_into_char(value.pos_4_12[i])]

(***************************************************************************)
(* figi.rs: the winnow parser.                                             *)
(***************************************************************************)
\* const CONSONANTS: &[char]
CONSONANTS ==
    {66, 67, 68, 70, 71, 72, 74, 75, 76, 77, 78, 80, 81, 82, 83, 84, 86, 87, 88, 89, 90}

\* fn is_consonant(c: char) -> bool
is_consonant(c) == c \in CONSONANTS

\* char::is_ascii_digit, and one_of('0'..='9')
is_ascii_digit(c) == c \in 48..57

\* The pairs the verify step of parse_figi refuses.
RestrictedPairs ==
    {<<66, 83>>, <<66, 77>>, <<71, 71>>, <<71, 66>>, <<71, 72>>, <<75, 89>>, <<86, 71>>}

\* The predicate of the third parser as char::is_ascii_alphanumeric would
\* have it for upper case: vowels pass.
consonant_or_digit_alnum(c) == c \in (48..57) \cup (65..90)

\* The predicate of the third parser: |c| is_consonant(c) || c.is_ascii_digit()
consonant_or_digit(c) == is_consonant(c) \/ is_ascii_digit(c)

\* take_while(2, is_consonant) on the input i: two leading consonants.
take_while_2(i) ==
    Len(i) >= 2 /\ \A k \in 1..2 : is_consonant(i[k])

\* take_while(8, ...) on the input i: eight leading consonants or digits.
take_while_8(i) ==
    Len(i) >= 8 /\ \A k \in 1..8 : consonant_or_digit(i[k])

\* fn parse_figi: the tuple of four parsers in sequence, then recognize.
\* Ok carries the Figi and the input left over; Err carries the context of
\* the parser that failed.
parse_figi(i) ==
    IF ~take_while_2(i)
        THEN Err0("Two valid consonants not in restricted set")
    ELSE IF SubSeq(i, 1, 2) \in RestrictedPairs
        THEN Err0("Two valid consonants not in restricted set")
    ELSE IF ~(Len(i) >= 3 /\ i[3] = 71)
        THEN Err0("G")
    ELSE IF ~take_while_8(SubSeq(i, 4, Len(i)))
        THEN Err0("Eight consonant or numeric characters")
    ELSE IF ~(Len(i) >= 12 /\ is_ascii_digit(i[12]))
        THEN Err0("Check digit")
    ELSE [tag |-> "Ok", figi |-> SubSeq(i, 1, 12), rest |-> SubSeq(i, 13, Len(i))]

\* from_str of figi.rs with parse_next in place of parse: input left over
\* after the twelve chars is not an error.
figi_from_str_prefix(s) ==
    LET r == parse_figi(s)
    IN  IF r.tag = "Err" THEN r ELSE Ok(r.figi)

\* impl FromStr for Figi (figi.rs): parse_figi.parse(s) wants all of s consumed.
figi_from_str(s) ==
    LET r == parse_figi(s)
    IN  IF r.tag = "Err" THEN r
        ELSE IF r.rest # <<>> THEN Err0("eof")
        ELSE Ok(r.figi)

\* impl fmt::Display for Figi (figi.rs): to_string()
figi_to_string(figi) == figi

(***************************************************************************)
(* figi_imperative.rs                                                      *)
(***************************************************************************)
\* let valid_chars = "0123456789BCDFGHJKLMNPQRSTVWXYZ";
valid_chars == (48..57) \cup CONSONANTS

\* The prefixes of the `match &s[0..2]`.
ImperativeRestricted ==
    {<<66, 83>>, <<66, 77>>, <<71, 71>>, <<71, 66>>, <<86, 71>>}

\* The byte offsets of s that lie on a char boundary (str::is_char_boundary).
char_boundaries(s) == {str_len(SubSeq(s, 1, k)) : k \in 0..Len(s)}

\* &s[a..b]: the chars of s in the byte range a..b; slicing off a char
\* boundary panics.
str_slice(s, a, b) ==
    IF {a, b} \subseteq char_boundaries(s) /\ a <= b
    THEN [tag |-> "Some",
          text |-> SubSeq(s, (CHOOSE k \in 0..Len(s) : str_len(SubSeq(s, 1, k)) = a) + 1,
                             CHOOSE k \in 0..Len(s) : str_len(SubSeq(s, 1, k)) = b)]
    ELSE [tag |-> "Panic"]

\* from_str of figi_imperative.rs with a length check that only refuses
\* inputs that are too short.
imperative_from_str_min_len(s) ==
    IF str_len(s) < 12 THEN Err0("InvalidLength")
    ELSE IF ~(\A k \in 1..Len(s) : s[k] \in valid_chars) THEN Err0("InvalidFormat")
    ELSE IF str_slice(s, 0, 2).tag = "Panic" THEN [tag |-> "Panic"]
    ELSE IF str_slice(s, 0, 2).text \in ImperativeRestricted
        THEN Err0("InvalidComponent")
    ELSE IF str_slice(s, 2, 3).tag = "Panic" THEN [tag |-> "Panic"]
    ELSE IF str_slice(s, 2, 3).text # <<71>> THEN Err0("InvalidComponent")
    ELSE IF ~is_ascii_digit(s[Len(s)]) THEN Err0("InvalidChecksum")
    ELSE Ok(s)

\* impl FromStr for Figi (figi_imperative.rs).
imperative_from_str(s) ==
    IF str_len(s) # 12 THEN Err0("InvalidLength")
    ELSE IF ~(\A k \in 1..Len(s) : s[k] \in valid_chars) THEN Err0("InvalidFormat")
    ELSE IF str_slice(s, 0, 2).tag = "Panic" THEN [tag |-> "Panic"]
    ELSE IF str_slice(s, 0, 2).text \in ImperativeRestricted
        THEN Err0("InvalidComponent")
    ELSE IF str_slice(s, 2, 3).tag = "Panic" THEN [tag |-> "Panic"]
    ELSE IF str_slice(s, 2, 3).text # <<71>> THEN Err0("InvalidComponent")
    ELSE IF ~is_ascii_digit(s[Len(s)]) THEN Err0("InvalidChecksum")
    ELSE Ok(s)

(***************************************************************************)
(* The caller: the inputs the tests and the benchmark's generator build.   *)
(***************************************************************************)
\* Positions 1-2: allowed pairs, the seven reserved pairs, a digit, a vowel,
\* lower case, a two-byte char.
Prefixes ==
    {
     <<66, 66>>,                                            \* 'BB'
     <<88, 67>>,                                            \* 'XC'
     <<88, 89>>,                                            \* 'XY'
     <<66, 83>>,                                            \* 'BS'
     <<66, 77>>,                                            \* 'BM'
     <<71, 71>>,                                            \* 'GG'
     <<71, 66>>,                                            \* 'GB'
     <<71, 72>>,                                            \* 'GH'
     <<75, 89>>,                                            \* 'KY'
     <<86, 71>>,                                            \* 'VG'
     <<66, 49>>,                                            \* 'B1'
     <<65, 66>>,                                            \* 'AB'
     <<98, 98>>,                                            \* 'bb'
     <<66, 233>>                                            \* 'B\xe9'
    }

\* Positions 4-11: the bodies of the identifiers in the tests, one with a
\* vowel, one with an emoji.
Bodies ==
    {
     <<48, 48, 48, 66, 76, 78, 78, 72>>,                    \* '000BLNNH'
     <<48, 48, 48, 78, 56, 56, 86, 51>>,                    \* '000N88V3'
     <<48, 48, 48, 66, 68, 56, 90, 75>>,                    \* '000BD8ZK'
     <<48, 48, 71, 70, 88, 88, 77, 82>>,                    \* '00GFXXMR'
     <<48, 65, 48, 66, 76, 78, 78, 72>>,                    \* '0A0BLNNH'
     <<48, 128640, 48, 66, 76, 78, 78, 72>>                 \* '0\U0001f6800BLNNH'
    }

\* Inputs of the tests, two inputs of twelve bytes in fewer than twelve chars,
\* and identifiers with a space and a NUL in the body.
TestVectors ==
    {
     <<>>,                                                  \* ''
     <<32, 32, 32, 32>>,                                    \* '    '
     <<0, 0, 0, 0>>,                                        \* '\x00\x00\x00\x00'
     <<33, 64, 35, 36, 37, 94, 38, 42, 40, 41, 95, 43>>,    \* '!@#$%^&*()_+'
     <<1041, 1041, 71, 48, 48, 48, 66, 76, 78, 78, 72, 54>>,  \* '\u0411\u0411G000BLNNH6'
     <<21992, 71, 48, 48, 48, 66, 76, 78, 78, 72, 54>>,     \* '\u55e8G000BLNNH6'
     <<8205, 66, 71, 48, 48, 48, 66, 76, 78, 78, 72, 54>>,  \* '\u200dBG000BLNNH6'
     <<65535, 66, 66, 71, 48, 48, 48, 66, 76, 78, 78, 72, 54>>,  \* '\uffffBBG000BLNNH6'
     <<66, 66, 71, 48, 48, 48, 66, 76, 78, 78, 72, 54, 69, 88, 84, 82, 65>>,  \* 'BBG000BLNNH6EXTRA'
     <<66, 66, 71, 48, 48, 66, 76, 78, 78, 72, 54>>,        \* 'BBG00BLNNH6'
     <<66, 66, 71, 48, 48, 48, 66, 76, 78, 78, 78, 72, 72, 54>>,  \* 'BBG000BLNNNHH6'
     <<66, 66, 71, 48, 48, 48, 66, 78, 78, 72, 54>>,        \* 'BBG000BNNH6'
     <<88, 89, 71, 48, 48, 48, 80, 83, 74, 78, 81, 57>>,    \* 'XYG000PSJNQ9'
     <<66, 66, 71, 48, 48, 48, 66, 57, 88, 86, 86, 56>>,    \* 'BBG000B9XVV8'
     <<66, 66, 71, 48, 48, 66, 57, 88, 86, 63, 86, 56>>,    \* 'BBG00B9XV?V8'
     <<66, 66, 66, 48, 48, 48, 66, 57, 88, 86, 86, 56>>,    \* 'BBB000B9XVV8'
     <<66, 66, 71, 48, 48, 48, 66, 76, 78, 78, 233>>,       \* 'BBG000BLNN\xe9'
     <<66, 66, 71, 48, 48, 48, 66, 76, 78, 8364>>,          \* 'BBG000BLN\u20ac'
     <<66, 66, 71, 48, 48, 48, 32, 76, 78, 78, 72, 54>>,    \* 'BBG000 LNNH6'
     <<66, 66, 71, 48, 48, 48, 0, 76, 78, 78, 72, 54>>      \* 'BBG000\x00LNNH6'
    }

\* Position 3: 'G', 'X', 'g'.
Thirds == {71, 88, 103}

\* Position 12: the ten digits, 'H', '?', and the two-byte char U+00E9.
Lasts == (48..57) \cup {72, 63, 233}

\* Chars a caller appends to an identifier: '6', 'E', ' ', NUL, U+00E9.
AppendChars == {54, 69, 32, 0, 233}

\* An identifier the generator can return with the largest checksum terms:
\* 'T' (29) at the positions that are not doubled, 'Y' (34) at the doubled ones.
RandomFigis ==
    {
     <<84, 89, 71, 89, 84, 89, 84, 89, 84, 89, 84, 56>>     \* 'TYGYTYTYTYT8'
    }

\* The inputs a run starts from.
Inputs ==
    {p \o <<t>> \o b \o <<l>> : p \in Prefixes, t \in Thirds, b \in Bodies, l \in Lasts}
        \cup TestVectors \cup RandomFigis

Fresh == [kind |-> "fresh", removed |-> 0, appended |-> 0, base |-> {}]

Init ==
    /\ input \in Inputs
    /\ origin = Fresh
    /\ r_figi = None
    /\ r_imperative = None
    /\ r_ibrk = None
    /\ r_chars = None
    /\ s_figi = None
    /\ s_ibrk = None
    /\ cls = None

\* Figi::from_str of figi.rs on the input.
CallFigiFromStr ==
    /\ r_figi.tag = "None"
    /\ r_figi' = figi_from_str(input)
    /\ UNCHANGED <<input, origin, r_imperative, r_ibrk, r_chars, s_figi, s_ibrk, cls>>

\* Figi::from_str of figi_imperative.rs on the input.
CallImperativeFromStr ==
    /\ r_imperative.tag = "None"
    /\ r_imperative' = imperative_from_str(input)
    /\ UNCHANGED <<input, origin, r_figi, r_ibrk, r_chars, s_figi, s_ibrk, cls>>

\* Figi::from_str of ibrk_figi.rs on the input.
CallIbrkFromStr ==
    /\ r_ibrk.tag = "None"
    /\ r_ibrk' = ibrk_from_str(input)
    /\ UNCHANGED <<input, origin, r_figi, r_imperative, r_chars, s_figi, s_ibrk, cls>>

\* Figi::from_chars of ibrk_figi.rs on the twelve chars of the input.
CallIbrkFromChars ==
    /\ r_chars.tag = "None"
    /\ Len(input) = 12
    /\ r_chars' = ibrk_from_chars(input)
    /\ UNCHANGED <<input, origin, r_figi, r_imperative, r_ibrk, s_figi, s_ibrk, cls>>

\* to_string() of the Figi that figi.rs returned.
CallFigiToString ==
    /\ r_figi.tag = "Ok"
    /\ s_figi.tag = "None"
    /\ s_figi' = [tag |-> "Some", text |-> figi_to_string(r_figi.figi)]
    /\ UNCHANGED <<input, origin, r_figi, r_imperative, r_ibrk, r_chars, s_ibrk, cls>>

\* String::from of the Figi that ibrk_figi.rs returned.
CallIbrkIntoString ==
    /\ r_ibrk.tag = "Ok"
    /\ s_ibrk.tag = "None"
    /\ s_ibrk' = [tag |-> "Some", text |-> ibrk_into_string(r_ibrk.figi)]
    /\ UNCHANGED <<input, origin, r_figi, r_imperative, r_ibrk, r_chars, s_figi, cls>>

\* All three from_str have returned for the current input.
AllParsed ==
    /\ r_figi.tag # "None"
    /\ r_imperative.tag # "None"
    /\ r_ibrk.tag # "None"

\* The implementations that accepted the current input.
AcceptedBy ==
    {n \in {"figi", "imperative", "ibrk"} :
        \/ n = "figi" /\ r_figi.tag = "Ok"
        \/ n = "imperative" /\ r_imperative.tag = "Ok"
        \/ n = "ibrk" /\ r_ibrk.tag = "Ok"}

\* The next input: every call is still to be made.
NextInput(s, o) ==
    /\ input' = s
    /\ origin' = o
    /\ r_figi' = None
    /\ r_imperative' = None
    /\ r_ibrk' = None
    /\ r_chars' = None
    /\ s_figi' = None
    /\ s_ibrk' = None
    /\ cls' = cls

\* Replace the final digit of an identifier the full validator accepted.
FlipCheckDigit(d) ==
    /\ AllParsed
    /\ origin.kind = "fresh"
    /\ r_ibrk.tag = "Ok"
    /\ d # input[12]
    /\ NextInput([input EXCEPT ![12] = d],
                 [kind |-> "flip", removed |-> 0, appended |-> 0, base |-> AcceptedBy])

\* Remove the char at position k of an accepted identifier, or one more.
RemoveChar(k) ==
    /\ AllParsed
    /\ \/ origin.kind = "fresh" /\ AcceptedBy # {}
       \/ origin.kind = "remove" /\ origin.removed < MaxRemoved
    /\ NextInput(SubSeq(input, 1, k - 1) \o SubSeq(input, k + 1, Len(input)),
                 [kind |-> "remove", removed |-> origin.removed + 1, appended |-> 0,
                  base |-> IF origin.kind = "fresh" THEN AcceptedBy ELSE origin.base])

\* Keep the first n chars of an accepted identifier.
Truncate(n) ==
    /\ AllParsed
    /\ origin.kind = "fresh"
    /\ AcceptedBy # {}
    /\ NextInput(SubSeq(input, 1, n),
                 [kind |-> "remove", removed |-> Len(input) - n, appended |-> 0,
                  base |-> AcceptedBy])

\* Append the char c to an accepted identifier, or one more.
AppendChar(c) ==
    /\ AllParsed
    /\ \/ origin.kind = "fresh" /\ AcceptedBy # {}
       \/ origin.kind = "append" /\ origin.appended < MaxAppended
    /\ NextInput(Append(input, c),
                 [kind |-> "append", removed |-> 0, appended |-> origin.appended + 1,
                  base |-> IF origin.kind = "fresh" THEN AcceptedBy ELSE origin.base])

Next ==
    \/ CallFigiFromStr
    \/ CallImperativeFromStr
    \/ CallIbrkFromStr
    \/ CallIbrkFromChars
    \/ CallFigiToString
    \/ CallIbrkIntoString
    \/ \E d \in 48..57 : FlipCheckDigit(d)
    \/ \E k \in 1..Len(input) : RemoveChar(k)
    \/ \E n \in 0..(Len(input) - 1) : Truncate(n)
    \/ \E c \in AppendChars : AppendChar(c)

Spec == Init /\ [][Next]_vars

(***************************************************************************)
(* The character classes on their own: one char is classified, converted   *)
(* to its code and back to a char, and its code (or twice its code) is     *)
(* reduced by sum_digits_sub_100, as from_chars, is_valid and String::from *)
(* do for each position.                                                   *)
(***************************************************************************)
Some(v) == [tag |-> "Some", v |-> v]

\* The chars given to the classifier: the 31 chars of the alphabet, the
\* vowels, '/', ':', '@', '[', 'b', 'g', ' ', NUL, U+00E9.
ClassifierChars ==
    (48..57) \cup (65..90) \cup {47, 58, 64, 91, 98, 103, 32, 0, 233}

InitClassifier ==
    /\ input = <<>>
    /\ origin = Fresh
    /\ r_figi = None
    /\ r_imperative = None
    /\ r_ibrk = None
    /\ r_chars = None
    /\ s_figi = None
    /\ s_ibrk = None
    /\ \E c \in ClassifierChars :
            cls = [char |-> c, consonant |-> None, numeric |-> None,
                   consonant_code |-> None, numeric_code |-> None,
                   consonant_char |-> None, numeric_char |-> None, reduced |-> None]

\* What the classifier leaves alone.
caller_vars == <<input, origin, r_figi, r_imperative, r_ibrk, r_chars, s_figi, s_ibrk>>

\* Consonant::try_from(c)
ClassifyConsonant ==
    /\ cls.consonant.tag = "None"
    /\ cls' = [cls EXCEPT !.consonant = Some(Consonant_try_from(cls.char))]
    /\ UNCHANGED caller_vars

\* ConsonantOrNumeric::try_from(c)
ClassifyConsonantOrNumeric ==
    /\ cls.numeric.tag = "None"
    /\ cls' = [cls EXCEPT !.numeric = Some(ConsonantOrNumeric_try_from(cls.char))]
    /\ UNCHANGED caller_vars

\* `self.pos_1 as u8`
ConsonantAsU8 ==
    /\ cls.consonant.tag = "Some"
    /\ cls.consonant.v # "InvalidConsonant"
    /\ cls.consonant_code.tag = "None"
    /\ cls' = [cls EXCEPT !.consonant_code = Some(Consonant_as_u8(cls.consonant.v))]
    /\ UNCHANGED caller_vars

\* `*c as u8`
ConsonantOrNumericAsU8 ==
    /\ cls.numeric.tag = "Some"
    /\ cls.numeric.v # "InvalidConsonantOrNumeric"
    /\ cls.numeric_code.tag = "None"
    /\ cls' = [cls EXCEPT !.numeric_code = Some(ConsonantOrNumeric_as_u8(cls.numeric.v))]
    /\ UNCHANGED caller_vars

\* s.push(value.pos_1.into())
ConsonantIntoChar ==
    /\ cls.consonant.tag = "Some"
    /\ cls.consonant.v # "InvalidConsonant"
    /\ cls.consonant_char.tag = "None"
    /\ cls' = [cls EXCEPT !.consonant_char = Some(Consonant_into_char(cls.consonant.v))]
    /\ UNCHANGED caller_vars

\* s.push(c.into())
ConsonantOrNumericIntoChar ==
    /\ cls.numeric.tag = "Some"
    /\ cls.numeric.v # "InvalidConsonantOrNumeric"
    /\ cls.numeric_char.tag = "None"
    /\ cls' = [cls EXCEPT
                  !.numeric_char = Some(ConsonantOrNumeric_into_char(cls.numeric.v))]
    /\ UNCHANGED caller_vars

\* sum_digits_sub_100(code) for w = 1 and sum_digits_sub_100(2 * code) for w = 2.
ReduceCode(w) ==
    /\ cls.numeric_code.tag = "Some"
    /\ cls.reduced.tag = "None"
    /\ LET n == u8(w * cls.numeric_code.v)
       IN  cls' = [cls EXCEPT !.reduced = Some([n |-> n, out |-> sum_digits_sub_100(n)])]
    /\ UNCHANGED caller_vars

NextClassifier ==
    \/ ClassifyConsonant
    \/ ClassifyConsonantOrNumeric
    \/ ConsonantAsU8
    \/ ConsonantOrNumericAsU8
    \/ ConsonantIntoChar
    \/ ConsonantOrNumericIntoChar
    \/ \E w \in {1, 2} : ReduceCode(w)

SpecClassifier == InitClassifier /\ [][NextClassifier]_vars

(***************************************************************************)
(* The vocabulary of the properties.                                       *)
(***************************************************************************)
\* The decimal digits '0'..'9'.
Digits == 48..57

\* The 21 restricted consonants B C D F G H J K L M N P Q R S T V W X Y Z.
RestrictedConsonants ==
    {66, 67, 68, 70, 71, 72, 74, 75, 76, 77, 78, 80, 81, 82, 83, 84, 86, 87, 88, 89, 90}

\* The 31-character alphabet of an identifier.
Alphabet == RestrictedConsonants \cup Digits

\* BS, BM, GG, GB, GH, KY, VG.
ReservedPairs ==
    {<<66, 83>>, <<66, 77>>, <<71, 71>>, <<71, 66>>, <<71, 72>>, <<75, 89>>, <<86, 71>>}

\* Rule 1: positions 1-2 are restricted consonants and no reserved pair.
PrefixOk(s) ==
    s[1] \in RestrictedConsonants /\ s[2] \in RestrictedConsonants
        /\ <<s[1], s[2]>> \notin ReservedPairs

\* Rule 2: position 3 is the marker 'G'.
MarkerOk(s) == s[3] = 71

\* Rule 3: positions 4-11 are restricted consonants or digits.
BodyOk(s) == \A k \in 4..11 : s[k] \in Alphabet

\* Rule 4: position 12 is a decimal digit.
CheckDigitFormatOk(s) == s[12] \in Digits

\* The positional grammar of a twelve-char identifier.
GrammarOk(s) ==
    Len(s) = 12 /\ PrefixOk(s) /\ MarkerOk(s) /\ BodyOk(s) /\ CheckDigitFormatOk(s)

\* Rule 5: position 12 is the digit (10 - (sum mod 10)) mod 10 of positions 1-11.
ChecksumOk(s) == s[12] = 48 + check_digit(is_valid_sum(figi_of_chars(s)))

\* BBG000BLNNH6, BBG000N88V36, BBG000BD8ZK0
KnownValid ==
    {<<66, 66, 71, 48, 48, 48, 66, 76, 78, 78, 72, 54>>,
     <<66, 66, 71, 48, 48, 48, 78, 56, 56, 86, 51, 54>>,
     <<66, 66, 71, 48, 48, 48, 66, 68, 56, 90, 75, 48>>}

(***************************************************************************)
(* The properties.                                                         *)
(***************************************************************************)
\* C1: round trip.  Whenever figi.rs or ibrk_figi.rs accepted the input, the
\* text of the returned Figi is the input, char for char.
C1_RoundTrip ==
    /\ s_figi.tag = "Some" => s_figi.text = input
    /\ s_ibrk.tag = "Some" => s_ibrk.text = input

\* An accepted identifier was converted back to text by both implementations.
C1_Witness ==
    /\ s_figi.tag = "Some"
    /\ s_ibrk.tag = "Some"
    /\ input = <<66, 66, 71, 48, 48, 48, 66, 76, 78, 78, 72, 54>>

\* C2: the full validator accepts BBG000BLNNH6, BBG000N88V36 and
\* BBG000BD8ZK0: from_str returns Ok and is_valid() is true of the result.
C2_KnownValidAccepted ==
    (input \in KnownValid /\ r_ibrk.tag # "None")
        => (r_ibrk.tag = "Ok" /\ is_valid(r_ibrk.figi))

\* from_str of ibrk_figi.rs has returned for AAPL's identifier BBG000N88V36.
C2_Witness ==
    /\ input = <<66, 66, 71, 48, 48, 48, 78, 56, 56, 86, 51, 54>>
    /\ r_ibrk.tag = "Ok"

\* C3: every Figi any implementation returns satisfies the positional
\* grammar and has the check digit of its first eleven characters.
C3_EveryFigiChecksumVerified ==
    /\ r_figi.tag = "Ok" => (GrammarOk(r_figi.figi) /\ ChecksumOk(r_figi.figi))
    /\ r_imperative.tag = "Ok"
        => (GrammarOk(r_imperative.figi) /\ ChecksumOk(r_imperative.figi))
    /\ r_ibrk.tag = "Ok"
        => (GrammarOk(ibrk_into_string(r_ibrk.figi))
            /\ ChecksumOk(ibrk_into_string(r_ibrk.figi)))
    /\ r_chars.tag = "Ok"
        => (GrammarOk(ibrk_into_string(r_chars.figi))
            /\ ChecksumOk(ibrk_into_string(r_chars.figi)))

\* C4: a twelve-char input that starts with a reserved pair gets the prefix
\* error, whatever its positions 3-12 hold: FirstTwo from ibrk_figi.rs, an Err
\* from figi.rs.
C4_ReservedPrefixRejected ==
    (Len(input) = 12 /\ SubSeq(input, 1, 2) \in ReservedPairs)
        => /\ r_ibrk.tag # "None" => (r_ibrk.tag = "Err" /\ r_ibrk.err = "FirstTwo")
           /\ r_figi.tag # "None" => r_figi.tag = "Err"

\* C5: checksum sensitivity.  An identifier the full validator accepted, with
\* only its final digit replaced by another digit, gets the Checksum error.
C5_ChecksumSensitivity ==
    (origin.kind = "flip" /\ r_ibrk.tag # "None")
        => (r_ibrk.tag = "Err" /\ r_ibrk.err = "Checksum")

\* The full validator has refused an accepted identifier with its digit replaced.
C5_Witness ==
    /\ origin.kind = "flip"
    /\ "ibrk" \in origin.base
    /\ r_ibrk.tag = "Err"

\* C6: length boundary.  An accepted identifier with chars removed (down to
\* the empty string) or with chars appended gets the length error from
\* ibrk_figi.rs and figi_imperative.rs and an Err from figi.rs.
C6_LengthBoundary ==
    (origin.kind \in {"remove", "append"} /\ origin.base # {})
        => /\ r_ibrk.tag # "None" => (r_ibrk.tag = "Err" /\ r_ibrk.err = "Length")
           /\ r_imperative.tag # "None"
                => (r_imperative.tag = "Err" /\ r_imperative.err = "InvalidLength")
           /\ r_figi.tag # "None" => r_figi.tag = "Err"

\* All three have refused an accepted identifier followed by two more chars.
C6_Witness ==
    /\ origin.kind = "append"
    /\ origin.appended = 2
    /\ origin.base = {"figi", "imperative", "ibrk"}
    /\ AllParsed

\* C7: alphabet rejection.  An input with a char outside the 31-character
\* alphabet is refused by every from_str: an Err, no Ok and no panic.
C7_AlphabetRejection ==
    (\E k \in 1..Len(input) : input[k] \notin Alphabet)
        => /\ r_figi.tag \in {"None", "Err"}
           /\ r_imperative.tag \in {"None", "Err"}
           /\ r_ibrk.tag \in {"None", "Err"}

\* All three have refused an input of twelve bytes that holds a multi-byte char.
C7_Witness ==
    /\ str_len(input) = 12
    /\ \E k \in 1..Len(input) : input[k] > 127
    /\ AllParsed

\* C8: check-digit format.  Twelve chars whose positions 1-11 satisfy the
\* grammar and whose position 12 is no digit are refused with an error other
\* than the checksum-mismatch error.
C8_CheckDigitFormatDistinct ==
    (Len(input) = 12 /\ PrefixOk(input) /\ MarkerOk(input) /\ BodyOk(input)
        /\ ~CheckDigitFormatOk(input))
        => /\ r_ibrk.tag # "None" => (r_ibrk.tag = "Err" /\ r_ibrk.err # "Checksum")
           /\ r_chars.tag # "None" => (r_chars.tag = "Err" /\ r_chars.err # "Checksum")

\* The first rule, in the order 1-5, that twelve chars violate; 0 if none.
FirstViolated(s) ==
    IF ~PrefixOk(s) THEN 1
    ELSE IF ~MarkerOk(s) THEN 2
    ELSE IF ~BodyOk(s) THEN 3
    ELSE IF ~CheckDigitFormatOk(s) THEN 4
    ELSE IF ~ChecksumOk(s) THEN 5
    ELSE 0

\* The rules an InvalidFigi variant of from_chars reports.  from_chars has one
\* variant for the chars of positions 4-12.
RulesOf(e) ==
    CASE e \in {"FirstTwo", "Consonant"} -> {1}
      [] e = "Third" -> {2}
      [] e = "ConsonantOrNumeric" -> {3, 4}
      [] e = "Checksum" -> {5}
      [] OTHER -> {}

\* C9: first failure wins.  from_chars reports the error of the first rule,
\* in the order 1-5, that the twelve chars violate.
C9_FirstFailureWins ==
    (r_chars.tag # "None" /\ FirstViolated(input) # 0)
        => (r_chars.tag = "Err" /\ FirstViolated(input) \in RulesOf(r_chars.err))

\* C10: the length error is returned exactly when the input does not have
\* twelve Unicode scalar values.
C10_LengthInScalarValues ==
    /\ r_ibrk.tag # "None"
        => ((r_ibrk.tag = "Err" /\ r_ibrk.err = "Length") <=> Len(input) # 12)
    /\ r_imperative.tag # "None"
        => ((r_imperative.tag = "Err" /\ r_imperative.err = "InvalidLength")
            <=> Len(input) # 12)

\* C11: every error from_str of ibrk_figi.rs returns carries the input text.
C11_ErrorCarriesInput ==
    r_ibrk.tag = "Err" => r_ibrk.text = input


\* The character code of a char of the alphabet: a digit's value, and 10 plus
\* the zero-based position in the Latin alphabet for a letter ('A' is 65).
CodeOf(c) == IF c \in Digits THEN c - 48 ELSE 10 + (c - 65)

\* The sum of the tens digit and the units digit of n.
DigitSum(n) == (n \div 10) + (n % 10)

RECURSIVE WeightedSumFrom(_, _, _)
\* The sum over positions k..11 of s of the digit sums of the codes, the codes
\* at the positions in doubled taken twice.
WeightedSumFrom(s, doubled, k) ==
    IF k > 11 THEN 0
    ELSE DigitSum(CodeOf(s[k]) * (IF k \in doubled THEN 2 ELSE 1))
            + WeightedSumFrom(s, doubled, k + 1)

\* The check digit (as a char) of positions 1-11 of s with the given positions doubled.
CheckCharOf(s, doubled) == 48 + ((10 - (WeightedSumFrom(s, doubled, 1) % 10)) % 10)

\* C12 as stated: the validator doubles the codes at the 1-based positions
\* 1, 3, 5, 7, 9, 11, so a grammatical input is accepted exactly when its last
\* char is the check digit computed with those positions doubled.
C12_DoublesOddPositions ==
    (r_chars.tag # "None" /\ GrammarOk(input))
        => (r_chars.tag = "Ok" <=> input[12] = CheckCharOf(input, {1, 3, 5, 7, 9, 11}))

\* C12 as the code has it: the validator doubles the codes at the 1-based
\* positions 2, 4, 6, 8, 10 and leaves 1, 3, 5, 7, 9, 11 undoubled.
C12_DoublesEvenPositions ==
    (r_chars.tag # "None" /\ GrammarOk(input))
        => (r_chars.tag = "Ok" <=> input[12] = CheckCharOf(input, {2, 4, 6, 8, 10}))

\* from_chars has accepted BBG000BLNNH6, whose digit 6 is the check digit with
\* the even positions doubled.
C12_Witness ==
    /\ input = <<66, 66, 71, 48, 48, 48, 66, 76, 78, 78, 72, 54>>
    /\ r_chars.tag = "Ok"
    /\ input[12] = CheckCharOf(input, {2, 4, 6, 8, 10})
    /\ input[12] # CheckCharOf(input, {1, 3, 5, 7, 9, 11})


\* The values of the checksum whose digit sum has two digits.
TwoDigitSums == {19, 28, 29, 38, 46, 56, 58, 64, 66, 68}

\* C13 as stated: sum_digits_sub_100 returns the tens digit plus the units
\* digit of a code or a doubled code, leaves a value below 10 as it is, and its
\* result is a single digit.
C13_ReducesToOneDigit ==
    cls.reduced.tag = "Some"
        => LET n == cls.reduced.v.n
               out == cls.reduced.v.out
           IN  /\ out = DigitSum(n)
               /\ n < 10 => out = n
               /\ out \in 0..9

\* C13 as the code has it: the result is the tens digit plus the units digit,
\* a value below 10 is left as it is, and the result is in 0..14; it has two
\* digits exactly for 19, 28, 29, 38, 46, 56, 58, 64, 66 and 68.
C13_SumsTheTwoDigits ==
    cls.reduced.tag = "Some"
        => LET n == cls.reduced.v.n
               out == cls.reduced.v.out
           IN  /\ out = DigitSum(n)
               /\ n < 10 => out = n
               /\ out \in 0..14
               /\ out > 9 <=> n \in TwoDigitSums

\* Twice the code of 'T' (29) was reduced: 58 gives 13.
C13_Witness ==
    /\ cls.char = 84
    /\ cls.reduced.tag = "Some"
    /\ cls.reduced.v = [n |-> 58, out |-> 13]


\* C14: the character-code table.  A digit d has code d and a restricted
\* consonant has code 10 plus its zero-based position in the alphabet; no
\* variant has 14, 18, 24 or 30; Consonant, ConsonantOrNumeric and the marker G
\* give one letter one code; and char -> enum -> char is the identity on the
\* alphabet.
C14_CharacterCodeTable ==
    /\ cls.consonant.tag = "Some"
        => (cls.consonant.v # "InvalidConsonant" <=> cls.char \in RestrictedConsonants)
    /\ cls.numeric.tag = "Some"
        => (cls.numeric.v # "InvalidConsonantOrNumeric" <=> cls.char \in Alphabet)
    /\ cls.consonant_code.tag = "Some"
        => /\ cls.consonant_code.v = CodeOf(cls.char)
           /\ cls.consonant_code.v \notin {14, 18, 24, 30}
           /\ cls.char = G_into_char => cls.consonant_code.v = G_into_u8
    /\ cls.numeric_code.tag = "Some"
        => /\ cls.numeric_code.v = CodeOf(cls.char)
           /\ cls.numeric_code.v \notin {14, 18, 24, 30}
           /\ cls.char = G_into_char => cls.numeric_code.v = G_into_u8
    /\ (cls.consonant_code.tag = "Some" /\ cls.numeric_code.tag = "Some")
        => cls.consonant_code.v = cls.numeric_code.v
    /\ cls.consonant_char.tag = "Some" => cls.consonant_char.v = cls.char
    /\ cls.numeric_char.tag = "Some" => cls.numeric_char.v = cls.char

\* 'Z' went through both enums: code 35 from each, and 'Z' back from each.
C14_Witness ==
    /\ cls.char = 90
    /\ cls.consonant_code = Some(35)
    /\ cls.numeric_code = Some(35)
    /\ cls.consonant_char = Some(90)
    /\ cls.numeric_char = Some(90)


\* C15: the three parsers agree on acceptance: once all three have parsed the
\* same input, any one returns Ok exactly when the others do, and the valid
\* examples of figi.rs's tests are accepted by all three.
C15_ParsersAgree ==
    AllParsed =>
        /\ r_figi.tag = "Ok" <=> r_ibrk.tag = "Ok"
        /\ r_figi.tag = "Ok" <=> r_imperative.tag = "Ok"

\* C16: figi_imperative returns InvalidComponent for an input of twelve
\* alphabet characters whose first two are any of the seven reserved pairs.
C16_ImperativeRejectsReserved ==
    (/\ r_imperative.tag # "None"
     /\ Len(input) = 12
     /\ \A k \in 1..12 : input[k] \in Alphabet
     /\ <<input[1], input[2]>> \in ReservedPairs)
        => (r_imperative.tag = "Err" /\ r_imperative.err = "InvalidComponent")


RECURSIVE RunningSum(_, _)
\* The sum of the first k reduced terms, in unbounded integers.
RunningSum(t, k) ==
    IF k = 0 THEN 0 ELSE RunningSum(t, k - 1) + sum_digits_sub_100(t[k])

\* from_chars built a Figi from the input and called is_valid on it.
IsValidCalled ==
    r_chars.tag = "Ok" \/ (r_chars.tag = "Err" /\ r_chars.err = "Checksum")

\* C17: no 8-bit overflow in the checksum.  For every Figi that from_chars
\* builds, each product of is_valid is at most 70, every running sum of the
\* eleven reduced values is at most 255 (so the u8 sum of the code is the
\* integer sum), and 10 - sum % 10 is not negative (so the u8 check digit is
\* the integer one).
C17_NoU8Overflow ==
    IsValidCalled =>
        LET figi == figi_of_chars(input)
            t == is_valid_terms(figi)
            sum == RunningSum(t, 11)
        IN  /\ Len(t) = 11
            /\ \A k \in 1..11 : t[k] <= 70
            /\ \A k \in 1..11 : RunningSum(t, k) <= 255
            /\ is_valid_sum(figi) = sum
            /\ 10 - (sum % 10) >= 0
            /\ check_digit(is_valid_sum(figi)) = (10 - (sum % 10)) % 10

\* The identifier with the largest terms was accepted: products of 68, sum 132.
C17_Witness ==
    /\ input = <<84, 89, 71, 89, 84, 89, 84, 89, 84, 89, 84, 56>>
    /\ r_chars.tag = "Ok"
    /\ is_valid_terms(r_chars.figi)[2] = 68
    /\ is_valid_sum(r_chars.figi) = 132


====
